---- MODULE Spec2Model ----
(***************************************************************************)
(* Net GEX engine of streamlit-net-gex (services/net_gex.py) and the part  *)
(* of the dashboard (streamlit_app.py) that builds the per-strike table.   *)
(*                                                                         *)
(* Floats are modelled in fixed point; every quantity has one unit:        *)
(*   implied volatility, sigma      1e-6            (0.25  -> 250000)      *)
(*   raw timestamps and seconds     1e3             (1.7e9 -> 1700000)     *)
(*   T_years                        1e-6 year                              *)
(*   T_days                         1e-3 day                               *)
(*   prices, strikes, open interest 1                                      *)
(*   gamma, gamma_avg, k, k*dOI     1e-3                                   *)
(*   NetGEX (rounded to 1 decimal)  1e-1                                   *)
(* A division of floats is the floor division of the scaled integers; the  *)
(* regression refinement of k, whose products and sums are exact in fixed  *)
(* point and rounded in floating point, is modelled with a significand     *)
(* (Fl, FlDiv).                                                            *)
(* Optional and dynamically typed values are records [tag, val]:           *)
(* tag "none" is None (or a missing dict key read with .get), "bad" is a   *)
(* value float() cannot parse, "nan" is pandas' missing cell, "num" a      *)
(* number. The engine's numeric inputs are real numbers: NaN arises only   *)
(* in the dashboard's merged table.                                        *)
(***************************************************************************)
EXTENDS Integers, Sequences, FiniteSets, TLC

None == [tag |-> "none", val |-> 0]
Bad == [tag |-> "bad", val |-> 0]
NaN == [tag |-> "nan", val |-> 0]
Num(x) == [tag |-> "num", val |-> x]

Max(a, b) == IF a >= b THEN a ELSE b
Min(a, b) == IF a <= b THEN a ELSE b
Abs(a) == IF a < 0 THEN -a ELSE a

\* ---------------------------------------------------------------- constants
SENTINEL_IV_MIN == 100
IV_MAX_FRACTION == 3000000
IV_MIN_FRACTION == 10000
PERCENT == 100
MS_THRESHOLD == 1000000000
MS_PER_S == 1000
YEAR_KS == 31536
MICRO == 1000000
T_FLOOR == 1
DAY_DS == 864
DAY_SCALE == 10000

\* ---------------------------------------------------------------- TimeBasis
InSecondsByMagnitude(ts) ==
  IF ts.tag = "none" THEN None
  ELSE IF Abs(ts.val) > MS_THRESHOLD THEN Num(ts.val \div MS_PER_S)
  ELSE Num(ts.val)

\* _in_seconds: None stays None; a value above 1e12 is divided by 1000.
InSeconds(ts) ==
  IF ts.tag = "none" THEN None
  ELSE IF ts.val > MS_THRESHOLD THEN Num(ts.val \div MS_PER_S)
  ELSE Num(ts.val)

TimeToExpiryNoFloor(snap, expi) ==
  LET t0 == InSeconds(snap)
      te == InSeconds(expi)
  IN IF t0.tag = "none" \/ te.tag = "none"
     THEN [raised |-> "ValueError", T_years |-> 0, T_days |-> 0]
     ELSE LET seconds == Max(te.val - t0.val, 0)
          IN [raised |-> "",
              T_years |-> (seconds * MICRO) \div YEAR_KS,
              T_days |-> (seconds * DAY_SCALE) \div DAY_DS]

TimeToExpiryNoneAsNow(snap, expi) ==
  LET t0 == InSeconds(snap)
      te == InSeconds(expi)
  IN IF t0.tag = "none" \/ te.tag = "none"
     THEN [raised |-> "", T_years |-> T_FLOOR, T_days |-> 0]
     ELSE LET seconds == Max(te.val - t0.val, 0)
          IN [raised |-> "",
              T_years |-> Max((seconds * MICRO) \div YEAR_KS, T_FLOOR),
              T_days |-> (seconds * DAY_SCALE) \div DAY_DS]

\* time_to_expiry: [raised, T_years, T_days]; raised is the ValueError.
TimeToExpiry(snap, expi) ==
  LET t0 == InSeconds(snap)
      te == InSeconds(expi)
  IN IF t0.tag = "none" \/ te.tag = "none"
     THEN [raised |-> "ValueError", T_years |-> 0, T_days |-> 0]
     ELSE LET seconds == Max(te.val - t0.val, 0)
          IN [raised |-> "",
              T_years |-> Max((seconds * MICRO) \div YEAR_KS, T_FLOOR),
              T_days |-> (seconds * DAY_SCALE) \div DAY_DS]

\* ---------------------------------------------------------------- IVNormalizer
NormalizeIvNoPercent(x) ==
  IF x.tag = "none" THEN None
  ELSE IF x.tag = "bad" THEN None
  ELSE IF x.val <= SENTINEL_IV_MIN THEN None
  ELSE Num(Max(Min(x.val, IV_MAX_FRACTION), IV_MIN_FRACTION))

\* _normalize_iv: None for None, for what float() rejects and for v <= 1e-4;
\* v > 3.0 is read as percent; the result is clipped to [0.01, 3.0].
NormalizeIv(x) ==
  IF x.tag = "none" THEN None
  ELSE IF x.tag = "bad" THEN None
  ELSE LET v == x.val
       IN IF v <= SENTINEL_IV_MIN THEN None
          ELSE LET w == IF v > IV_MAX_FRACTION THEN v \div PERCENT ELSE v
               IN Num(Max(Min(w, IV_MAX_FRACTION), IV_MIN_FRACTION))

ChooseIvSidesOnly(call_iv, put_iv, agg_iv) ==
  LET c == NormalizeIv(call_iv)
      p == NormalizeIv(put_iv)
  IN IF c.tag = "num" /\ p.tag = "num" THEN Num((c.val + p.val) \div 2)
     ELSE IF c.tag = "num" THEN c
     ELSE p

\* _choose_iv: mean of the valid side IVs, else the aggregated IV, else None.
ChooseIv(call_iv, put_iv, agg_iv) ==
  LET c == IF call_iv.tag # "none" THEN NormalizeIv(call_iv) ELSE None
      p == IF put_iv.tag # "none" THEN NormalizeIv(put_iv) ELSE None
      a == IF agg_iv.tag # "none" THEN NormalizeIv(agg_iv) ELSE None
  IN IF c.tag = "num" /\ p.tag = "num" THEN Num((c.val + p.val) \div 2)
     ELSE IF c.tag = "num" THEN c
     ELSE IF p.tag = "num" THEN p
     ELSE a

\* ---------------------------------------------------------------- GammaEngine
FP == 10000
INV_SQRT_2PI == 3989
EXP_MINUS_1 == 3679
D1_UNDERFLOW == 4000
GAMMA_SCALE == 100000

\* Float division of scaled integers, for a divisor of either sign.
Div(a, b) == IF b > 0 THEN a \div b ELSE (-a) \div (-b)

RECURSIVE SqrtSearch(_, _, _)
SqrtSearch(n, lo, hi) ==
  IF lo >= hi THEN lo
  ELSE LET mid == (lo + hi + 1) \div 2
       IN IF mid * mid <= n THEN SqrtSearch(n, mid, hi)
          ELSE SqrtSearch(n, lo, mid - 1)

\* math.sqrt on a non-negative scaled integer: the integer square root.
Sqrt(n) == SqrtSearch(n, 0, 46340)

\* math.log(S / K) for S / K > 0, in 1e-4: 2 * atanh((S - K) / (S + K)).
Log(s, strike) ==
  LET z == ((Abs(s) - Abs(strike)) * FP) \div (Abs(s) + Abs(strike))
      z2 == (z * z) \div FP
      z3 == (z2 * z) \div FP
      z5 == (z3 * z2) \div FP
  IN 2 * (z + z3 \div 3 + z5 \div 5)

RECURSIVE ExpDecay(_, _)
ExpDecay(r, n) ==
  IF n = 0 \/ r = 0 THEN r ELSE ExpDecay((r * EXP_MINUS_1) \div FP, n - 1)

\* math.exp(-y) for y >= 0, both in 1e-4.
ExpNeg(y) ==
  LET f == y % FP
      f2 == (f * f) \div FP
      f3 == (f2 * f) \div FP
      f4 == (f3 * f) \div FP
      f5 == (f4 * f) \div FP
  IN ExpDecay(FP - f + f2 \div 2 - f3 \div 6 + f4 \div 24 - f5 \div 120,
              y \div FP)

\* _phi(x): x in 1e-2, result in 1e-4; exp underflows to 0.0 for large |x|.
Phi(x) ==
  IF Abs(x) > D1_UNDERFLOW THEN 0
  ELSE (ExpNeg((x * x) \div 2) * INV_SQRT_2PI) \div FP

\* The try block of _gamma_bs; whatever it raises is caught and gives 0.0:
\* S / K with K = 0, math.log of a ratio <= 0, math.sqrt of T < 0, and a
\* division by sigma * sqrt(T) = 0.
GammaTry(s, strike, sigma, T) ==
  IF strike = 0 THEN 0
  ELSE IF s = 0 \/ (s > 0) # (strike > 0) THEN 0
  ELSE IF T < 0 THEN 0
  ELSE LET vol == (Div(sigma, 100) * Sqrt(100 * T)) \div 100
           vol4 == vol \div 100
       IN IF vol = 0 THEN 0
          ELSE LET d1 == Div((Log(s, strike) + (vol4 * vol4) \div (2 * FP)) * FP,
                             vol)
               IN Div(Phi(d1) * GAMMA_SCALE, s * vol)

GammaBsAbsSpot(s, strike, sigma, T) ==
  IF sigma <= 0 \/ T <= 0 \/ strike <= 0 THEN 0
  ELSE GammaTry(Abs(s), strike, sigma, T)

GammaBsNoSigmaGuard(s, strike, sigma, T) ==
  IF T <= 0 \/ s <= 0 \/ strike <= 0 THEN 0
  ELSE GammaTry(s, strike, sigma, T)

\* _gamma_bs(S, K, sigma, T, r = 0.0)
GammaBs(s, strike, sigma, T) ==
  IF sigma <= 0 \/ T <= 0 \/ s <= 0 \/ strike <= 0 THEN 0
  ELSE GammaTry(s, strike, sigma, T)

\* ---------------------------------------------------------------- helpers
Range(f) == {f[i] : i \in DOMAIN f}

\* sorted(xs, key = ...): keys[i] is the key of xs[i]; the positions of xs in
\* the order a stable sort gives them (equal keys keep their order in xs).
StableOrder(keys) ==
  LET n == Len(keys)
      Before(j, i) == keys[j] < keys[i] \/ (keys[j] = keys[i] /\ j < i)
      Rank(i) == Cardinality({j \in 1..n : Before(j, i)}) + 1
  IN [r \in 1..n |-> CHOOSE i \in 1..n : Rank(i) = r]

Round1Truncating(x) == x \div 100

\* round(x, 1): x in 1e-3, result in 1e-1, ties to the even digit.
Round1(x) ==
  LET q == x \div 100
      r == x % 100
  IN IF r > 50 \/ (r = 50 /\ q % 2 = 1) THEN q + 1 ELSE q

RECURSIVE SumSeq(_)
SumSeq(xs) == IF xs = <<>> THEN 0 ELSE Head(xs) + SumSeq(Tail(xs))

\* ---------------------------------------------------------------- inputs
MaxRows == 3
MaxLegs == 2
DEFAULT_M == 100
DEFAULT_SCALE_DIVISOR == 1000
DEFAULT_CORE_K == 11
IV_FALLBACK == 200000

Row(st, coi, poi, civ, piv, iv) ==
  [strike |-> st, call_OI |-> coi, put_OI |-> poi,
   call_iv |-> civ, put_iv |-> piv, iv |-> iv]

\* Input rows of calculate_net_gex: dicts with strike, call_OI, put_OI and
\* the optional call_iv, put_iv, iv.
RowPool ==
  { Row(Num(100), Num(10), Num(2), Num(200000), Num(30000000), None),
    Row(Num(102), None, Num(5), None, Num(10), Num(300000)),
    Row(Num(99), Num(4), None, None, None, None),
    Row(Num(100), Num(3), Num(3), Bad, Num(350000000), None),
    Row(Num(0), Num(0), Num(0), Num(500000), None, None),
    Row(None, Num(1), Num(1), Num(250000), None, None),
    Row(Num(98), Bad, Num(1), Num(250000), None, None),
    Row(Num(101), Num(0), Num(0), None, Num(250000), None),
    Row(Num(-5), Num(2), Num(6), Num(250000), None, None) }

\* Sequences of at most n distinct pool rows, in every order.
RECURSIVE RowLists(_)
RowLists(n) ==
  IF n = 0 THEN {<<>>}
  ELSE LET shorter == RowLists(n - 1)
       IN shorter \cup {Append(xs, r) : xs \in shorter, r \in RowPool}

DistinctRowLists(n) ==
  {xs \in RowLists(n) : \A i, j \in DOMAIN xs : i # j => xs[i] # xs[j]}

SPool == {-100, 0, 100, 101}
CoreKPool == {1, 2, DEFAULT_CORE_K}
\* <<snapshot_ts, expiry_ts>>: 1e6 s apart (one in seconds, one in
\* milliseconds), the same second, and each timestamp missing.
TsPairs ==
  { <<Num(1700000), Num(1701000000)>>,
    <<Num(1700000000), Num(1700000000)>>,
    <<None, Num(1701000)>>,
    <<Num(1700000), None>> }

\* Inputs of the leaf functions when called on their own.
IvInputs ==
  {None, Bad} \cup
  {Num(v) : v \in {-1000000, 0, 10, 100, 101, 5000, 10000, 10001, 250000,
                   3000000, 3000001, 3000100, 25000000, 100000000,
                   300000000, 300000100, 400000000}}
TsPool ==
  {None} \cup
  {Num(v) : v \in {1700000, 1700001, 1701000, 1700000000, 1700001000,
                   1701000000, 900000, 900001, 900000000, 900001000,
                   -1100000000, -1099999000}}
GammaS == {-100, 0, 100, 101}
GammaK == {-100, 0, 99, 100, 102}
GammaSigma == {-200000, 0, 10000, 250000, 3000000}
GammaT == {-1, 0, 1, 31, 31709}

MaxSpanKs == 2000

\* Arguments of the calls of a caller that makes several: rows with both
\* side IVs, with the provider's IV only and with no IV.
MaxKeptRows == 2
KeptRowPool ==
  { Row(Num(100), Num(10), Num(2), Num(200000), Num(30000000), None),
    Row(Num(102), None, Num(5), None, Num(10), Num(300000)),
    Row(Num(99), Num(4), None, None, None, None) }
RECURSIVE KeptRowLists(_)
KeptRowLists(n) ==
  IF n = 0 THEN {<<>>}
  ELSE LET shorter == KeptRowLists(n - 1)
       IN shorter \cup
          UNION {{Append(xs, r) : r \in KeptRowPool \ Range(xs)} :
                   xs \in shorter}
KeptSPool == {100, 101}
KeptCoreKPool == {1, DEFAULT_CORE_K}
KeptTsPairs == {<<Num(1700000), Num(1701000000)>>, <<None, Num(1701000)>>}

\* <<snapshot_ts, expiry_ts>> for time_to_expiry on its own: every pair of the
\* pool whose time to expiry, as computed, is at most MaxSpanKs.
TsCallPairs ==
  {p \in TsPool \X TsPool :
     \/ p[1].tag = "none"
     \/ p[2].tag = "none"
     \/ InSeconds(p[2]).val - InSeconds(p[1]).val <= MaxSpanKs}

\* ---------------------------------------------------------------- state
VARIABLES
  pc,                    \* where the program is
  ret,                   \* last return of a leaf function called on its own
  S, rows, expiry_ts, snapshot_ts, M, scale_divisor, core_K,
  use_regression_refine, \* arguments of calculate_net_gex
  T_years, T_days, enriched, iv_candidates, iv_median, core, gamma_avg,
  k_raw, k,              \* locals of calculate_net_gex; core holds positions
                         \* in enriched: its rows are the same dict objects
  out_rows, core_strikes,\* NetGexResult.rows and metrics["core_strikes"]
  err,                   \* the exception that left calculate_net_gex or the
                         \* dashboard's try block
  calls, puts, df_raw,   \* the dashboard's option legs and merged table
  earlier                \* what a caller kept of one earlier call of
                         \* calculate_net_gex: its arguments and its result

argv == <<S, rows, expiry_ts, snapshot_ts, M, scale_divisor, core_K,
          use_regression_refine>>
locals == <<T_years, T_days, enriched, iv_candidates, iv_median, core,
            gamma_avg, k_raw, k>>
result == <<out_rows, core_strikes>>
dash == <<calls, puts, df_raw>>
vars == <<pc, ret, argv, locals, result, err, dash, earlier>>

NoRet == [fn |-> "", args |-> <<>>, out |-> None]
NoCall == [args |-> <<>>, out |-> <<>>]

InitArgs ==
  /\ S = 0 /\ rows = <<>> /\ expiry_ts = None /\ snapshot_ts = None
  /\ M = DEFAULT_M /\ scale_divisor = DEFAULT_SCALE_DIVISOR
  /\ core_K = DEFAULT_CORE_K /\ use_regression_refine = FALSE
InitLocals ==
  /\ T_years = 0 /\ T_days = 0 /\ enriched = <<>> /\ iv_candidates = <<>>
  /\ iv_median = 0 /\ core = <<>> /\ gamma_avg = 0 /\ k_raw = 0 /\ k = 0
InitResult == out_rows = <<>> /\ core_strikes = <<>>
InitDash == calls = <<>> /\ puts = <<>> /\ df_raw = <<>>

Init ==
  /\ pc = "idle" /\ ret = NoRet /\ err = "" /\ earlier = NoCall
  /\ InitArgs /\ InitLocals /\ InitResult /\ InitDash

\* ---------------------------------------------------------------- leaf calls
NormalizeIvCall ==
  /\ pc = "idle"
  /\ \E x \in IvInputs :
       ret' = [fn |-> "_normalize_iv", args |-> <<x>>, out |-> NormalizeIv(x)]
  /\ pc' = "leaf"
  /\ UNCHANGED <<earlier, argv, locals, result, err, dash>>

TimeToExpiryCall ==
  /\ pc = "idle"
  /\ \E p \in TsCallPairs :
       ret' = [fn |-> "time_to_expiry", args |-> p,
               out |-> TimeToExpiry(p[1], p[2])]
  /\ pc' = "leaf"
  /\ UNCHANGED <<earlier, argv, locals, result, err, dash>>

GammaBsCall ==
  /\ pc = "idle"
  /\ \E s \in GammaS, strike \in GammaK, sigma \in GammaSigma, T \in GammaT :
       ret' = [fn |-> "_gamma_bs", args |-> <<s, strike, sigma, T>>,
               out |-> GammaBs(s, strike, sigma, T)]
  /\ pc' = "leaf"
  /\ UNCHANGED <<earlier, argv, locals, result, err, dash>>

\* ---------------------------------------------------------------- engine
\* float(x): TypeError for None, ValueError for an unparsable value.
FloatError(x) ==
  IF x.tag = "none" THEN "TypeError"
  ELSE IF x.tag = "bad" THEN "ValueError"
  ELSE ""

\* r.get(key, 0) or 0: a missing, None or zero value gives 0.
OrZero(x) ==
  IF x.tag = "none" \/ (x.tag = "num" /\ x.val = 0) THEN Num(0) ELSE x

\* The exception one pass of the row loop raises ("" for none).
RowError(r) ==
  IF FloatError(r.strike) # "" THEN FloatError(r.strike)
  ELSE IF FloatError(OrZero(r.call_OI)) # "" THEN FloatError(OrZero(r.call_OI))
  ELSE FloatError(OrZero(r.put_OI))

\* One pass of the row loop: the enriched dict.
EnrichRow(r) ==
  LET call_OI == OrZero(r.call_OI).val
      put_OI == OrZero(r.put_OI).val
  IN [strike |-> r.strike.val, call_OI |-> call_OI, put_OI |-> put_OI,
      dOI |-> call_OI - put_OI, call_iv |-> r.call_iv, put_iv |-> r.put_iv,
      iv_provider |-> r.iv,
      iv_used |-> ChooseIv(r.call_iv, r.put_iv, r.iv)]

EnrichAll(rs) == [i \in 1..Len(rs) |-> EnrichRow(rs[i])]

\* iv_candidates: the resolved iv_used values, in row order.
IvCandidates(en) ==
  LET resolved == SelectSeq(en, LAMBDA e : e.iv_used.tag = "num")
  IN [i \in 1..Len(resolved) |-> resolved[i].iv_used.val]

IvMedianOfFirstCall(cands) ==
  IF cands # <<>> /\ earlier = NoCall
  THEN LET order == StableOrder(cands)
       IN cands[order[Len(cands) \div 2 + 1]]
  ELSE IV_FALLBACK

\* sorted(iv_candidates)[len // 2], or 0.20 for no candidate.
IvMedian(cands) ==
  IF cands # <<>>
  THEN LET order == StableOrder(cands)
       IN cands[order[Len(cands) \div 2 + 1]]
  ELSE IV_FALLBACK

\* sorted(enriched, key = |strike - S|)[: max(core_K, 1)], as positions.
CoreOf(en, spot, coreK) ==
  LET order == StableOrder([i \in 1..Len(en) |-> Abs(en[i].strike - spot)])
  IN SubSeq(order, 1, Min(Max(coreK, 1), Len(en)))

\* for row in core: if row["iv_used"] is None: row["iv_used"] = iv_median.
\* The rows of core are rows of enriched, so enriched changes.
Impute(en, cr, med) ==
  [i \in 1..Len(en) |->
     IF i \in Range(cr) /\ en[i].iv_used.tag = "none"
     THEN [en[i] EXCEPT !.iv_used = Num(med)]
     ELSE en[i]]

WeightNet(row) == row.call_OI - row.put_OI + 1

Weight(row) == row.call_OI + row.put_OI + 1

GammaAvgAllRows(en, cr, spot, T) ==
  LET w_sum == SumSeq([j \in 1..Len(en) |-> Weight(en[j])])
      g_sum == SumSeq([j \in 1..Len(en) |->
                 Weight(en[j]) *
                 GammaBs(spot, en[j].strike, en[j].iv_used.val, T)])
  IN IF w_sum > 0 THEN g_sum \div w_sum ELSE 0

\* Weighted gamma average over the core.
GammaAvg(en, cr, spot, T) ==
  LET w_sum == SumSeq([j \in 1..Len(cr) |-> Weight(en[cr[j]])])
      g_sum == SumSeq([j \in 1..Len(cr) |->
                 Weight(en[cr[j]]) *
                 GammaBs(spot, en[cr[j]].strike, en[cr[j]].iv_used.val, T)])
  IN IF w_sum > 0 THEN g_sum \div w_sum ELSE 0

\* k_raw = gamma_avg * S * float(M) / float(scale_divisor)
KRaw(gavg, spot, mult, divisor) == Div(gavg * spot * mult, divisor)

\* Floating point of the refinement. k_raw is a float whose significand is
\* full; here its significand is the integer kraw, so the format has as many
\* bits as kraw, and a product, sum or quotient that needs more is rounded
\* to that many significant bits, a tie to the even one.
RECURSIVE BitLen(_)
BitLen(n) == IF n = 0 THEN 0 ELSE 1 + BitLen(n \div 2)

RECURSIVE Pow2(_)
Pow2(e) == IF e <= 0 THEN 1 ELSE 2 * Pow2(e - 1)

\* x rounded to p significant bits.
Fl(p, x) ==
  LET a == Abs(x)
      u == Pow2(BitLen(a) - p)
      q == a \div u
      r == a % u
      m == IF 2 * r > u \/ (2 * r = u /\ q % 2 = 1) THEN (q + 1) * u ELSE q * u
  IN IF x < 0 THEN -m ELSE m

\* num / den for den > 0, rounded to p significant bits, and to the unit of
\* k when the quotient has fewer bits.
FlDiv(p, num, den) ==
  LET a == Abs(num)
      q == a \div den
      u == Pow2(BitLen(q) - p)
      qq == q \div u
      rest == (q % u) * den + (a % den)
      m == IF 2 * rest > u * den \/ (2 * rest = u * den /\ qq % 2 = 1)
           THEN (qq + 1) * u
           ELSE qq * u
  IN IF num < 0 THEN -m ELSE m

\* num += dOI * (k_raw * dOI) over the first n rows.
RECURSIVE RefineNum(_, _, _)
RefineNum(en, kraw, n) ==
  IF n = 0 THEN 0
  ELSE LET p == BitLen(Abs(kraw))
           Gi_star == Fl(p, kraw * en[n].dOI)
       IN Fl(p, RefineNum(en, kraw, n - 1) + Fl(p, en[n].dOI * Gi_star))

RefineLinear(en, kraw) ==
  LET num == SumSeq([i \in 1..Len(en) |-> kraw * en[i].dOI])
      den == SumSeq([i \in 1..Len(en) |-> en[i].dOI * en[i].dOI])
  IN IF den > 0 THEN Div(num, den) ELSE kraw

\* The regression refinement of k: num / den, or k_raw for den = 0. den, a
\* sum of squares of whole numbers, is exact.
Refine(en, kraw) ==
  LET num == RefineNum(en, kraw, Len(en))
      den == SumSeq([i \in 1..Len(en) |-> en[i].dOI * en[i].dOI])
  IN IF den > 0 THEN FlDiv(BitLen(Abs(kraw)), num, den) ELSE kraw

OutRowsUnsorted(en, kk, med) ==
  [r \in 1..Len(en) |->
     [strike |-> en[r].strike, call_OI |-> en[r].call_OI,
      put_OI |-> en[r].put_OI, dOI |-> en[r].dOI,
      iv_used |-> IF en[r].iv_used.tag # "none" THEN en[r].iv_used.val
                  ELSE med,
      NetGEX |-> Round1(kk * en[r].dOI)]]

\* The output rows: enriched sorted by strike, with NetGEX.
OutRows(en, kk, med) ==
  LET order == StableOrder([i \in 1..Len(en) |-> en[i].strike])
  IN [r \in 1..Len(en) |->
        LET row == en[order[r]]
        IN [strike |-> row.strike, call_OI |-> row.call_OI,
            put_OI |-> row.put_OI, dOI |-> row.dOI,
            iv_used |-> IF row.iv_used.tag # "none" THEN row.iv_used.val
                        ELSE med,
            NetGEX |-> Round1(kk * row.dOI)]]

\* calculate_net_gex is entered with arguments of the given sets;
\* time_to_expiry runs first.
CallWith(spots, lists, pairs, cks) ==
  /\ pc = "idle"
  /\ \E spot \in spots, rs \in lists, ts \in pairs,
        ck \in cks, refine \in BOOLEAN :
       LET tt == TimeToExpiry(ts[1], ts[2])
       IN /\ S' = spot /\ rows' = rs
          /\ snapshot_ts' = ts[1] /\ expiry_ts' = ts[2]
          /\ core_K' = ck /\ use_regression_refine' = refine
          /\ IF tt.raised # ""
             THEN /\ pc' = "raised" /\ err' = tt.raised
                  /\ UNCHANGED <<T_years, T_days>>
             ELSE /\ pc' = "enrich" /\ err' = ""
                  /\ T_years' = tt.T_years /\ T_days' = tt.T_days
  /\ UNCHANGED <<earlier, ret, M, scale_divisor, enriched, iv_candidates,
                 iv_median, core, gamma_avg, k_raw, k, result, dash>>

Call == CallWith(SPool, DistinctRowLists(MaxRows), TsPairs, CoreKPool)

\* The row loop; a row float() rejects ends the call with its exception.
Enrich ==
  /\ pc = "enrich"
  /\ LET bad == {i \in 1..Len(rows) : RowError(rows[i]) # ""}
     IN IF bad = {}
        THEN /\ enriched' = EnrichAll(rows)
             /\ pc' = "calibrate" /\ err' = err
        ELSE LET first == CHOOSE i \in bad : \A j \in bad : i <= j
             IN /\ enriched' = EnrichAll(SubSeq(rows, 1, first - 1))
                /\ pc' = "raised" /\ err' = RowError(rows[first])
  /\ iv_candidates' = IvCandidates(enriched')
  /\ UNCHANGED <<earlier, ret, argv, T_years, T_days, iv_median, core,
                 gamma_avg,
                 k_raw, k, result, dash>>

\* Median IV, ATM core, imputation, gamma average, k and its refinement.
Calibrate ==
  /\ pc = "calibrate"
  /\ iv_median' = IvMedian(iv_candidates)
  /\ core' = CoreOf(enriched, S, core_K)
  /\ enriched' = Impute(enriched, core', iv_median')
  /\ gamma_avg' = GammaAvg(enriched', core', S, T_years)
  /\ k_raw' = KRaw(gamma_avg', S, M, scale_divisor)
  /\ k' = IF use_regression_refine THEN Refine(enriched', k_raw') ELSE k_raw'
  /\ pc' = "compose"
  /\ UNCHANGED <<earlier, ret, argv, T_years, T_days, iv_candidates, result,
                 err, dash>>

\* The output rows and the metrics; the NetGexResult is returned.
Compose ==
  /\ pc = "compose"
  /\ out_rows' = OutRows(enriched, k, iv_median)
  /\ core_strikes' = [j \in 1..Len(core) |-> enriched[core[j]].strike]
  /\ pc' = "returned"
  /\ UNCHANGED <<earlier, ret, argv, locals, err, dash>>

\* The metrics dict and the NetGexResult that is returned.
Metrics ==
  [S |-> S, T_years |-> T_years, T_days |-> T_days,
   iv_median_core |-> iv_median, gamma_avg |-> gamma_avg, k_raw |-> k_raw,
   k |-> k, M |-> M, scale_divisor |-> scale_divisor, core_K |-> core_K,
   core_strikes |-> core_strikes]
Returned == [rows |-> out_rows, k |-> k, metrics |-> Metrics]

\* The caller keeps the arguments and the result of a call that returned.
Keep ==
  /\ pc = "returned" /\ earlier = NoCall
  /\ earlier' = [args |-> argv, out |-> Returned]
  /\ UNCHANGED <<pc, ret, argv, locals, result, err, dash>>

\* ---------------------------------------------------------------- dashboard
\* One option of the provider's block: strike, openInterest, volume,
\* impliedVolatility.
Leg(st, oi, vol, iv) ==
  [strike |-> st, openInterest |-> oi, volume |-> vol,
   impliedVolatility |-> iv]

LegPool ==
  { Leg(100, Num(10), Num(1), Num(200000)),
    Leg(100, Num(7), Num(0), None),
    Leg(102, Num(4), Num(2), Num(250000)) }

RECURSIVE LegLists(_)
LegLists(n) ==
  IF n = 0 THEN {<<>>}
  ELSE LET shorter == LegLists(n - 1)
       IN shorter \cup {Append(xs, l) : xs \in shorter, l \in LegPool}

\* A row of pd.merge(df_calls, df_puts, on = "strike", how = "outer"): a side
\* with no option at the strike is NaN.
MergedRow(st, c, p) ==
  [strike |-> st,
   call_OI |-> c.openInterest, call_volume |-> c.volume,
   call_iv |-> c.impliedVolatility,
   put_OI |-> p.openInterest, put_volume |-> p.volume,
   put_iv |-> p.impliedVolatility]

NoLeg == Leg(0, NaN, NaN, NaN)

RECURSIVE Flatten(_)
Flatten(xss) == IF xss = <<>> THEN <<>> ELSE Head(xss) \o Flatten(Tail(xss))

\* The outer join: every (call, put) pair of equal strike, the calls with no
\* put and the puts with no call; then sort_values("strike").
OuterMerge(cs, ps) ==
  LET Matches(c) == SelectSeq(ps, LAMBDA p : p.strike = c.strike)
      LeftRows(c) ==
        IF Matches(c) = <<>> THEN <<MergedRow(c.strike, c, NoLeg)>>
        ELSE [j \in 1..Len(Matches(c)) |->
                MergedRow(c.strike, c, Matches(c)[j])]
      left == Flatten([i \in 1..Len(cs) |-> LeftRows(cs[i])])
      rightOnly ==
        SelectSeq(ps, LAMBDA p : \A i \in 1..Len(cs) : cs[i].strike # p.strike)
      right == [j \in 1..Len(rightOnly) |->
                  MergedRow(rightOnly[j].strike, NoLeg, rightOnly[j])]
      joined == left \o right
      order == StableOrder([i \in 1..Len(joined) |-> joined[i].strike])
  IN [r \in 1..Len(joined) |-> joined[order[r]]]

\* The parameters of calculate_net_gex, the ones with no default, and the
\* keywords the dashboard passes.
SignatureParams ==
  {"S", "rows", "expiry_ts", "snapshot_ts", "M", "scale_divisor", "core_K",
   "use_regression_refine"}
RequiredParams == {"S", "rows", "expiry_ts", "snapshot_ts"}
CallKeywords == {"df", "S", "expiry_ts", "snapshot_ts"}

\* Binding keyword arguments to the signature: TypeError for an unexpected
\* keyword or a missing required argument.
BindError(kw) ==
  IF kw \subseteq SignatureParams /\ RequiredParams \subseteq kw THEN ""
  ELSE "TypeError"

\* The button is pressed: the legs of the chosen block are made into
\* df_calls and df_puts and merged. A DataFrame built from an empty list has
\* no "strike" column and the merge raises KeyError.
RunMerge ==
  /\ pc = "idle"
  /\ \E cs \in LegLists(MaxLegs), ps \in LegLists(MaxLegs) :
       /\ calls' = cs /\ puts' = ps
       /\ IF cs = <<>> \/ ps = <<>>
          THEN /\ df_raw' = <<>> /\ pc' = "failed" /\ err' = "KeyError"
          ELSE /\ df_raw' = OuterMerge(cs, ps) /\ pc' = "merged" /\ err' = ""
  /\ UNCHANGED <<earlier, ret, argv, locals, result>>

\* calculate_net_gex(df = ..., S = ..., expiry_ts = ..., snapshot_ts = ...);
\* the except clause of the handler shows the exception.
RunCalculate ==
  /\ pc = "merged"
  /\ IF BindError(CallKeywords) # ""
     THEN /\ pc' = "failed" /\ err' = BindError(CallKeywords)
     ELSE /\ pc' = "shown" /\ err' = ""
  /\ UNCHANGED <<earlier, ret, argv, locals, result, dash>>

\* The call or the script run is over; the next one starts from nothing.
Reset ==
  /\ pc \in {"leaf", "returned", "raised", "failed", "shown"}
  /\ pc' = "idle" /\ ret' = NoRet /\ err' = ""
  /\ S' = 0 /\ rows' = <<>> /\ expiry_ts' = None /\ snapshot_ts' = None
  /\ M' = DEFAULT_M /\ scale_divisor' = DEFAULT_SCALE_DIVISOR
  /\ core_K' = DEFAULT_CORE_K /\ use_regression_refine' = FALSE
  /\ T_years' = 0 /\ T_days' = 0 /\ enriched' = <<>>
  /\ iv_candidates' = <<>> /\ iv_median' = 0 /\ core' = <<>>
  /\ gamma_avg' = 0 /\ k_raw' = 0 /\ k' = 0
  /\ out_rows' = <<>> /\ core_strikes' = <<>>
  /\ calls' = <<>> /\ puts' = <<>> /\ df_raw' = <<>>
  /\ earlier' = earlier

Next ==
  \/ NormalizeIvCall
  \/ TimeToExpiryCall
  \/ GammaBsCall
  \/ Call
  \/ Enrich
  \/ Calibrate
  \/ Compose
  \/ RunMerge
  \/ RunCalculate
  \/ Reset

Spec == Init /\ [][Next]_vars

\* A caller that makes calls of calculate_net_gex one after the other and
\* keeps the result of one of them.
CallAgain ==
  CallWith(KeptSPool, KeptRowLists(MaxKeptRows), KeptTsPairs, KeptCoreKPool)

NextCalls ==
  \/ CallAgain
  \/ Enrich
  \/ Calibrate
  \/ Compose
  \/ Keep
  \/ Reset

SpecCalls == Init /\ [][NextCalls]_vars

\* ================================================================ claims
EnginePcs == {"enrich", "calibrate", "compose", "returned", "raised"}
Clamp(v, lo, hi) == IF v < lo THEN lo ELSE IF v > hi THEN hi ELSE v
LeafCall(fn) == pc = "leaf" /\ ret.fn = fn

\* C1: _normalize_iv returns the reference value for every raw input and
\* never raises: None for None, for an unparsable value and for v <= 1e-4;
\* clamp(v, 0.01, 3.0) for 1e-4 < v <= 3.0; clamp(v / 100, 0.01, 3.0) for
\* v > 3.0 (v / 100 to the unit of the fixed point); so every result that is
\* not None lies in [0.01, 3.0].
C1_NormalizeIvReference ==
  LeafCall("_normalize_iv") =>
    LET x == ret.args[1]
        out == ret.out
    IN /\ out.tag \in {"none", "num"}
       /\ x.tag \in {"none", "bad"} => out = None
       /\ x.tag = "num" /\ x.val <= 100 => out = None
       /\ x.tag = "num" /\ 100 < x.val /\ x.val <= 3000000 =>
            out = Num(Clamp(x.val, 10000, 3000000))
       /\ x.tag = "num" /\ x.val > 3000000 =>
            /\ out.tag = "num"
            /\ \E w \in {out.val, x.val \div 100} :
                 /\ 100 * w <= x.val /\ x.val < 100 * (w + 1)
                 /\ out.val = Clamp(w, 10000, 3000000)
       /\ out.tag = "num" => 10000 <= out.val /\ out.val <= 3000000

\* C1 witness: 25 (percent) was normalized to 0.25.
C1_Witness ==
  /\ LeafCall("_normalize_iv")
  /\ ret.args[1] = Num(25000000)
  /\ ret.out = Num(250000)

\* The timestamps of a time_to_expiry call, in seconds as the code reads
\* them: above 1e12 is milliseconds.
SecondsOf(x) == IF x > 1000000000 THEN x \div 1000 ELSE x

\* C2: for non-null timestamps time_to_expiry does not raise, and with
\* seconds = max(expiry - snapshot, 0): T_years = max(seconds / 31536000,
\* 1e-6) and T_days = seconds / 86400 (each to the unit of the fixed point);
\* for expiry <= snapshot T_years is exactly 1e-6 and T_days is 0; T_years
\* is positive in every case.
C2_TimeToExpiryFormula ==
  LeafCall("time_to_expiry") /\ ret.args[1].tag = "num"
      /\ ret.args[2].tag = "num" =>
    LET t0 == SecondsOf(ret.args[1].val)
        te == SecondsOf(ret.args[2].val)
        seconds == IF te - t0 > 0 THEN te - t0 ELSE 0
        out == ret.out
    IN /\ out.raised = ""
       /\ out.T_years > 0
       /\ IF seconds * 1000000 < 31536
          THEN out.T_years = 1
          ELSE /\ out.T_years * 31536 <= seconds * 1000000
               /\ seconds * 1000000 < (out.T_years + 1) * 31536
       /\ out.T_days * 864 <= seconds * 10000
       /\ seconds * 10000 < (out.T_days + 1) * 864
       /\ te <= t0 => out.T_years = 1 /\ out.T_days = 0

\* C2 witness: the expiry lies before the snapshot (clock skew) and the call
\* returned the floor.
C2_Witness ==
  /\ LeafCall("time_to_expiry")
  /\ ret.args = <<Num(1700001), Num(1700000)>>
  /\ ret.out = [raised |-> "", T_years |-> 1, T_days |-> 0]

\* The other way to write the instant a raw timestamp x stands for: x in
\* seconds is 1000 * x in milliseconds.
InMs(x) == 1000 * x
SpanOk(a, b) == InSeconds(Num(b)).val - InSeconds(Num(a)).val <= MaxSpanKs

\* C3 as stated: a timestamp whose magnitude exceeds 1e12 is divided by 1000
\* and any other is used as seconds, and for the same instants the result is
\* the same whether the timestamps are in seconds, in milliseconds or one of
\* each.
C3_UnitsNeverMatter ==
  LeafCall("time_to_expiry") /\ ret.args[1].tag = "num"
      /\ ret.args[2].tag = "num" =>
    LET a == ret.args[1].val
        b == ret.args[2].val
        Claimed(x) == IF Abs(x) > 1000000000 THEN x \div 1000 ELSE x
        seconds == Max(Claimed(b) - Claimed(a), 0)
    IN /\ ret.out.T_days * 864 <= seconds * 10000
       /\ seconds * 10000 < (ret.out.T_days + 1) * 864
       /\ \A a2 \in {a} \cup {InMs(x) : x \in {a} \cap (-2000000..2000000)},
             b2 \in {b} \cup {InMs(x) : x \in {b} \cap (-2000000..2000000)} :
            SpanOk(a2, b2) => TimeToExpiry(Num(a2), Num(b2)) = ret.out

\* Seconds since the epoch that are above 1e9 (so that their milliseconds
\* are above 1e12) and small enough to be written in milliseconds here.
Recent(x) == 1000000 < x /\ x <= 2000000

\* C3 as amended: a timestamp above 1e12 (a signed comparison: not one below
\* -1e12) is divided by 1000 and any other is used as seconds; for instants
\* later than 1e9 seconds after the epoch, given in seconds, the result is
\* the same when either timestamp or both are given in milliseconds.
C3_UnitsOfRecentInstants ==
  LeafCall("time_to_expiry") /\ ret.args[1].tag = "num"
      /\ ret.args[2].tag = "num" =>
    LET a == ret.args[1].val
        b == ret.args[2].val
        seconds == Max(SecondsOf(b) - SecondsOf(a), 0)
    IN /\ ret.out.T_days * 864 <= seconds * 10000
       /\ seconds * 10000 < (ret.out.T_days + 1) * 864
       /\ Recent(a) /\ Recent(b) =>
            \A a2 \in {a, InMs(a)}, b2 \in {b, InMs(b)} :
              TimeToExpiry(Num(a2), Num(b2)) = ret.out

\* C3 witness: two recent instants 1000 s apart were given in seconds, and
\* the milliseconds of the same instants give the same result.
C3_Witness ==
  /\ LeafCall("time_to_expiry")
  /\ ret.args = <<Num(1700000), Num(1700001)>>
  /\ ret.out.T_years = 31
  /\ TimeToExpiry(Num(1700000000), Num(1700001000)) = ret.out

\* C4: with snapshot_ts or expiry_ts None, time_to_expiry raises ValueError,
\* and calculate_net_gex ends with that error with no row processed and no
\* result.
C4_MissingTimestampRaises ==
  /\ LeafCall("time_to_expiry")
       /\ (ret.args[1].tag = "none" \/ ret.args[2].tag = "none") =>
       ret.out.raised = "ValueError"
  /\ pc \in EnginePcs /\ (snapshot_ts = None \/ expiry_ts = None) =>
       /\ pc = "raised" /\ err = "ValueError"
       /\ enriched = <<>> /\ iv_candidates = <<>>
       /\ out_rows = <<>> /\ core_strikes = <<>>

\* C4 witness: calculate_net_gex was called with rows and no snapshot_ts and
\* raised.
C4_Witness ==
  /\ pc = "raised" /\ err = "ValueError"
  /\ snapshot_ts = None /\ expiry_ts # None /\ Len(rows) = 2

\* C5: _gamma_bs returns 0.0 whenever one of S, K, sigma, T is not positive,
\* whatever the other three are, and is never negative otherwise.
C5_GammaZeroOrPositive ==
  LeafCall("_gamma_bs") =>
    /\ (\E i \in 1..4 : ret.args[i] <= 0) => ret.out = 0
    /\ ret.out >= 0

\* C5 witness: only sigma was not positive and the result was 0.0; and a
\* call with four positive arguments returned a positive gamma.
C5_Witness ==
  /\ LeafCall("_gamma_bs")
  /\ ret.args = <<100, 100, -200000, 31709>>
  /\ ret.out = 0
  /\ GammaBs(100, 100, 250000, 31709) > 0

\* The distinct strikes of a sequence of records with a numeric strike.
StrikesOf(xs) == {xs[i].strike : i \in DOMAIN xs}
CountStrike(xs, v) == Cardinality({i \in DOMAIN xs : xs[i].strike = v})

\* C6 as stated: the per-strike table has exactly one row per distinct
\* strike of the call side or the put side, also when a strike occurs more
\* than once in the input; every row has dOI = call_OI - put_OI, and a
\* missing open interest is 0.
C6_OneRowPerStrike ==
  /\ pc = "merged" =>
       Len(df_raw) = Cardinality(StrikesOf(calls) \cup StrikesOf(puts))
  /\ pc = "returned" =>
       /\ Len(out_rows) = Cardinality({rows[i].strike.val : i \in DOMAIN rows})
       /\ \A r \in DOMAIN out_rows :
            out_rows[r].dOI = out_rows[r].call_OI - out_rows[r].put_OI
       /\ \A i \in DOMAIN rows :
            /\ rows[i].call_OI.tag = "none" => enriched[i].call_OI = 0
            /\ rows[i].put_OI.tag = "none" => enriched[i].put_OI = 0

\* C7: the rows of the returned NetGexResult are in ascending order of
\* strike and their strikes are a permutation of the input rows' strikes.
C7_SortedPermutation ==
  pc = "returned" =>
    /\ Len(out_rows) = Len(rows)
    /\ \A r \in 1..(Len(out_rows) - 1) :
         out_rows[r].strike <= out_rows[r + 1].strike
    /\ \A i \in DOMAIN rows :
         CountStrike(out_rows, rows[i].strike.val) =
           Cardinality({j \in DOMAIN rows : rows[j].strike = rows[i].strike})

\* C7 witness: three rows were given in descending order of strike and came
\* back in ascending order.
C7_Witness ==
  /\ pc = "returned" /\ Len(rows) = 3
  /\ rows[1].strike.val > rows[2].strike.val
  /\ rows[2].strike.val > rows[3].strike.val
  /\ out_rows[1].strike = rows[3].strike.val
  /\ out_rows[3].strike = rows[1].strike.val

\* C8: in every output row NetGEX is k * dOI rounded to one decimal (the
\* nearest tenth, a tie to the even one), with the one k of the result and
\* dOI = call_OI - put_OI of the row.
C8_NetGexIsRoundedKTimesDOI ==
  pc = "returned" =>
    \A r \in DOMAIN out_rows :
      LET row == out_rows[r]
          x == k * (row.call_OI - row.put_OI)
          off == 100 * row.NetGEX - x
      IN /\ row.dOI = row.call_OI - row.put_OI
         /\ -50 <= off /\ off <= 50
         /\ off \in {-50, 50} => row.NetGEX % 2 = 0

\* C8 witness: a row whose k * dOI is not a whole tenth was rounded up, and
\* another row of the same result was rounded down.
C8_Witness ==
  /\ pc = "returned" /\ k > 0
  /\ \E r \in DOMAIN out_rows :
       /\ (k * out_rows[r].dOI) % 100 > 50
       /\ 100 * out_rows[r].NetGEX > k * out_rows[r].dOI
  /\ \E r \in DOMAIN out_rows :
       /\ (k * out_rows[r].dOI) % 100 \in 1..49
       /\ 100 * out_rows[r].NetGEX < k * out_rows[r].dOI

\* The weights and weighted gammas of the core, summed.
CoreWeightSum ==
  LET acc[j \in 0..Len(core)] ==
        IF j = 0 THEN 0
        ELSE acc[j - 1] + enriched[core[j]].call_OI
                        + enriched[core[j]].put_OI + 1
  IN acc[Len(core)]
CoreGammaSum ==
  LET acc[j \in 0..Len(core)] ==
        IF j = 0 THEN 0
        ELSE acc[j - 1]
             + (enriched[core[j]].call_OI + enriched[core[j]].put_OI + 1)
               * GammaBs(S, enriched[core[j]].strike,
                         enriched[core[j]].iv_used.val, T_years)
  IN acc[Len(core)]

\* C9: with refinement off, k = gamma_avg * S * M / scale_divisor, where
\* gamma_avg is the weighted mean of gamma(S, strike_i, T_years, iv_used_i)
\* over the core rows only, with weights call_OI_i + put_OI_i + 1, and 0.0
\* when the weights sum to zero, as for no rows (each quotient to the unit
\* of the fixed point).
C9_KFromCoreGammaAverage ==
  pc \in {"compose", "returned"} /\ ~use_regression_refine =>
    /\ IF CoreWeightSum = 0 THEN gamma_avg = 0
       ELSE /\ gamma_avg * CoreWeightSum <= CoreGammaSum
            /\ CoreGammaSum < (gamma_avg + 1) * CoreWeightSum
    /\ k * scale_divisor <= gamma_avg * S * M
    /\ gamma_avg * S * M < (k + 1) * scale_divisor
    /\ rows = <<>> => gamma_avg = 0 /\ k = 0

\* C9 witness: refinement off, a core of one row out of two, and the row
\* left out has another gamma than the core row; k is positive.
C9_Witness ==
  /\ pc = "returned" /\ ~use_regression_refine
  /\ Len(core) = 1 /\ Len(enriched) = 2 /\ k > 0
  /\ \E i \in DOMAIN enriched :
       /\ i # core[1]
       /\ enriched[i].iv_used.tag = "num"
       /\ GammaBs(S, enriched[i].strike, enriched[i].iv_used.val, T_years)
            # gamma_avg

\* C10 as stated: metrics["core_strikes"] holds the min(core_size, number of
\* rows) rows nearest to S, and of two strikes equally far from S the lower
\* one comes first, whatever the order of the input rows.
C10_CoreNearestLowerFirst ==
  pc = "returned" =>
    LET n == Len(enriched)
        order == StableOrder([i \in 1..n |->
                   1000 * Abs(enriched[i].strike - S) + enriched[i].strike])
    IN core_strikes =
         [j \in 1..Min(core_K, n) |-> enriched[order[j]].strike]

\* The resolved IVs in ascending order.
SortedCandidates ==
  LET order == StableOrder(iv_candidates)
  IN [r \in 1..Len(iv_candidates) |-> iv_candidates[order[r]]]

\* C11 as stated: iv_median is the median of the resolved iv_used values,
\* the middle one for an odd count and the mean of the two middle ones for
\* an even count (to the unit of the fixed point), and 0.20 when no IV is
\* resolved; in that case every output row has iv_used = 0.20.
C11_MedianOrFallback ==
  pc \in {"compose", "returned"} =>
    LET n == Len(iv_candidates)
        s == SortedCandidates
    IN IF n = 0
       THEN /\ iv_median = 200000
            /\ pc = "returned" =>
                 \A r \in DOMAIN out_rows : out_rows[r].iv_used = 200000
       ELSE IF n % 2 = 1 THEN iv_median = s[(n + 1) \div 2]
       ELSE /\ 2 * iv_median <= s[n \div 2] + s[n \div 2 + 1]
            /\ s[n \div 2] + s[n \div 2 + 1] < 2 * iv_median + 2

\* The call has valid timestamps and rows whose strike and open interest
\* are numbers (or a missing open interest).
NumericCall ==
  /\ pc \in EnginePcs
  /\ snapshot_ts # None /\ expiry_ts # None
  /\ \A i \in DOMAIN rows : RowError(rows[i]) = ""

\* C12: with valid timestamps calculate_net_gex does not raise on degenerate
\* numbers and returns a result: a non-positive S or strike contributes a
\* gamma of 0.0, so that k = 0.0 and every NetGEX is 0 when S <= 0 or when
\* every core strike is <= 0; zero time to expiry is floored; no rows give
\* k = 0.0 and an empty table; all-zero open interest gives NetGEX = 0 in
\* every row; and with refinement on and every dOI = 0, k stays k_raw and
\* every NetGEX is 0.
C12_DegenerateNumbersGiveZero ==
  NumericCall =>
    /\ pc # "raised" /\ err = ""
    /\ pc \in {"compose", "returned"} =>
         /\ T_years >= 1
         /\ \A j \in DOMAIN core :
              S <= 0 \/ enriched[core[j]].strike <= 0 =>
                GammaBs(S, enriched[core[j]].strike,
                        enriched[core[j]].iv_used.val, T_years) = 0
         /\ S <= 0 \/ (\A j \in DOMAIN core : enriched[core[j]].strike <= 0) =>
              gamma_avg = 0 /\ k = 0
         /\ use_regression_refine /\ (\A i \in DOMAIN enriched :
                                        enriched[i].dOI = 0) => k = k_raw
    /\ pc = "returned" =>
         /\ Len(out_rows) = Len(rows)
         /\ k = 0 => \A r \in DOMAIN out_rows : out_rows[r].NetGEX = 0
         /\ (\A i \in DOMAIN enriched :
               enriched[i].call_OI = 0 /\ enriched[i].put_OI = 0) =>
              \A r \in DOMAIN out_rows : out_rows[r].NetGEX = 0
         /\ (\A i \in DOMAIN enriched : enriched[i].dOI = 0) =>
              \A r \in DOMAIN out_rows : out_rows[r].NetGEX = 0

\* C12 witness: a negative S, a negative strike in the core, zero time to
\* expiry and refinement on; the call returned k = 0.0 and a table of two
\* rows with NetGEX = 0 although a dOI is not 0.
C12_Witness ==
  /\ pc = "returned" /\ S = -100 /\ T_days = 0 /\ use_regression_refine
  /\ Len(out_rows) = 2 /\ out_rows[1].strike = -5 /\ out_rows[2].strike = 100
  /\ out_rows[1].dOI # 0
  /\ k = 0 /\ \A r \in DOMAIN out_rows : out_rows[r].NetGEX = 0

\* C13 as stated: the only error that leaves calculate_net_gex is the
\* InvalidInput of a missing timestamp; with valid timestamps a row with a
\* missing or unparsable strike, open interest or IV does not end the call,
\* which returns the table.
C13_OnlyInvalidInputPropagates ==
  /\ pc = "raised" =>
       err = "ValueError" /\ (snapshot_ts = None \/ expiry_ts = None)
  /\ pc \in EnginePcs /\ snapshot_ts # None /\ expiry_ts # None =>
       pc # "raised" /\ err = ""

FromSides(i, c, p) ==
  LET u == enriched[i].iv_used
  IN /\ c.tag = "num" /\ p.tag = "num" =>
          /\ u.tag = "num"
          /\ 2 * u.val <= c.val + p.val /\ c.val + p.val < 2 * u.val + 2
     /\ c.tag = "num" /\ p.tag = "none" => u = c
     /\ c.tag = "none" /\ p.tag = "num" => u = p

\* C15 as stated: iv_used is the mean of the normalized side IVs that are
\* not None, and the strike is unresolved (None) whenever both are None,
\* whatever else the row carries.
C15_UnresolvedWithoutSideIv ==
  pc = "calibrate" =>
    \A i \in DOMAIN enriched :
      LET c == NormalizeIv(rows[i].call_iv)
          p == NormalizeIv(rows[i].put_iv)
      IN /\ FromSides(i, c, p)
         /\ c.tag = "none" /\ p.tag = "none" => enriched[i].iv_used = None

\* C15 as amended: iv_used is the mean of the normalized side IVs that are
\* not None; when both are None it is the normalized aggregated IV of the
\* row (its "iv"), and the strike is unresolved only when that is None too.
C15_SideIvsThenAggregatedIv ==
  pc = "calibrate" =>
    \A i \in DOMAIN enriched :
      LET c == NormalizeIv(rows[i].call_iv)
          p == NormalizeIv(rows[i].put_iv)
      IN /\ FromSides(i, c, p)
         /\ c.tag = "none" /\ p.tag = "none" =>
              enriched[i].iv_used = NormalizeIv(rows[i].iv)

\* C15 witness: one row has both side IVs (0.20 and 30 percent, mean 0.25),
\* another has no valid side IV and an aggregated IV of 0.30, which is its
\* iv_used, and a third has no IV at all and is unresolved.
C15_Witness ==
  /\ pc = "calibrate" /\ Len(enriched) = 3
  /\ rows[1].call_iv = Num(200000) /\ rows[1].put_iv = Num(30000000)
  /\ enriched[1].iv_used = Num(250000)
  /\ NormalizeIv(rows[2].call_iv) = None /\ NormalizeIv(rows[2].put_iv) = None
  /\ rows[2].iv = Num(300000) /\ enriched[2].iv_used = Num(300000)
  /\ rows[3].iv = None /\ enriched[3].iv_used = None

\* C16 as stated: the imputation is made on a copy: the rows handed to the
\* composing step still have iv_used unresolved for every strike whose IV
\* the row loop left unresolved, in the core and outside it.
C16_ImputationOnACopy ==
  pc \in {"compose", "returned"} =>
    \A i \in DOMAIN enriched :
      ChooseIv(rows[i].call_iv, rows[i].put_iv, rows[i].iv) = None =>
        enriched[i].iv_used = None

\* C17 as stated: with refinement on, k is equal to k_raw, whether or not
\* some dOI is not 0, and so every NetGEX is what it is with refinement off.
C17_RefinementIsIdentity ==
  pc \in {"compose", "returned"} /\ use_regression_refine =>
    /\ k = k_raw
    /\ pc = "returned" =>
         \A r \in DOMAIN out_rows :
           out_rows[r].NetGEX = Round1(k_raw * out_rows[r].dOI)

\* C17 as amended: with refinement on, k is the quotient of the two sums
\* evaluated in floating point: it is k_raw when every dOI is 0 and k_raw up
\* to the rounding errors of the 2 n + 1 operations otherwise (at most n + 2
\* units in the last place of k_raw, for n rows), so that k * dOI differs
\* from k_raw * dOI by at most (n + 2) |dOI| such units, and NetGEX from the
\* value with refinement off by that and the two roundings to a tenth.
C17_RefinementWithinRounding ==
  pc \in {"compose", "returned"} /\ use_regression_refine =>
    LET n == Len(enriched)
    IN /\ (\A i \in DOMAIN enriched : enriched[i].dOI = 0) => k = k_raw
       /\ Abs(k - k_raw) <= n + 2
       /\ pc = "returned" =>
            \A r \in DOMAIN out_rows :
              LET dOI == out_rows[r].dOI
              IN 100 * Abs(out_rows[r].NetGEX - Round1(k_raw * dOI))
                   <= (n + 2) * Abs(dOI) + 100

\* C17 witness: refinement on changed k in the last place, and the NetGEX of
\* a row is not the one refinement off gives.
C17_Witness ==
  /\ pc = "returned" /\ use_regression_refine
  /\ k # k_raw /\ Abs(k - k_raw) <= 2
  /\ \E r \in DOMAIN out_rows :
       out_rows[r].NetGEX # Round1(k_raw * out_rows[r].dOI)

\* C18: with S > 0, M > 0, scale_divisor > 0 and no negative open interest,
\* k >= 0, and in every output row NetGEX >= 0 when dOI > 0, NetGEX <= 0
\* when dOI < 0 and NetGEX = 0 when dOI = 0.
C18_NetGexHasTheSignOfDOI ==
  /\ pc \in {"compose", "returned"}
  /\ S > 0 /\ M > 0 /\ scale_divisor > 0
  /\ \A i \in DOMAIN enriched :
       enriched[i].call_OI >= 0 /\ enriched[i].put_OI >= 0
  => /\ k >= 0
     /\ \A r \in DOMAIN out_rows :
          /\ out_rows[r].dOI > 0 => out_rows[r].NetGEX >= 0
          /\ out_rows[r].dOI < 0 => out_rows[r].NetGEX <= 0
          /\ out_rows[r].dOI = 0 => out_rows[r].NetGEX = 0

\* C18 witness: a positive k with refinement on, and rows with dOI > 0,
\* dOI < 0 and dOI = 0 whose NetGEX is positive, negative and 0.
C18_Witness ==
  /\ pc = "returned" /\ S > 0 /\ k > 0 /\ use_regression_refine
  /\ \E r \in DOMAIN out_rows : out_rows[r].dOI > 0 /\ out_rows[r].NetGEX > 0
  /\ \E r \in DOMAIN out_rows : out_rows[r].dOI < 0 /\ out_rows[r].NetGEX < 0
  /\ \E r \in DOMAIN out_rows : out_rows[r].dOI = 0 /\ out_rows[r].NetGEX = 0

\* C19 as stated: after the button is pressed on a chain whose block has
\* calls and puts, the call of calculate_net_gex is accepted by its
\* signature and the run does not end in the "Calculation failed" state.
C19_DashboardCallIsAccepted ==
  calls # <<>> /\ puts # <<>> /\ pc \in {"failed", "shown"} =>
    pc = "shown" /\ err = ""

====
